---- MODULE Spec2Model ----
(***************************************************************************)
(* A model of tunes.py: search thesession.org, pick a tune and one of its  *)
(* settings with rofi, and pipe the ABC notation through abcm2ps and       *)
(* ps2pdf into a PDF viewer.                                               *)
(*                                                                         *)
(* Text is a sequence of one-character strings, so that str.split,         *)
(* str.strip, int() and str.join are computed the way Python computes      *)
(* them.  An optional value (Python's None or a value) is a sequence of    *)
(* length 0 or 1.                                                          *)
(***************************************************************************)
EXTENDS Integers, Sequences, FiniteSets, TLC

\* ------------------------------------------------------------------ bounds

\* How many times the re-query loop of search_and_display may iterate.
MaxRequery == 2

\* Largest index the picker replies with (lists hold at most 2 candidates).
MaxIndex == 2

\* Longest per-field query result of a list page extracted on its own.
MaxLen == 2

\* Most lines of a notes element extracted on its own.
MaxLines == 2

\* ------------------------------------------------------------ text helpers

NL == "\n"
Colon == ":"
Space == " "
None == <<>>
Some(v) == <<v>>

Digits == <<"0", "1", "2", "3", "4", "5", "6", "7", "8", "9">>

IsDigit(c) == \E i \in 1..Len(Digits) : Digits[i] = c

DigitVal(c) == (CHOOSE i \in 1..Len(Digits) : Digits[i] = c) - 1

\* The position of the first sep in s, 0 when there is none.
FindFirst(s, sep) ==
    IF \E i \in 1..Len(s) : s[i] = sep
    THEN CHOOSE i \in 1..Len(s) : s[i] = sep /\ \A j \in 1..(i - 1) : s[j] # sep
    ELSE 0

\* str.split(sep): the fields between the separators; always at least one.
RECURSIVE split(_, _)
split(s, sep) ==
    LET i == FindFirst(s, sep)
    IN  IF i = 0
        THEN <<s>>
        ELSE <<SubSeq(s, 1, i - 1)>> \o split(SubSeq(s, i + 1, Len(s)), sep)

\* str.strip(chars): drop the leading and trailing characters that are in chars.
RECURSIVE lstrip(_, _)
lstrip(s, chars) ==
    IF s # <<>> /\ Head(s) \in chars THEN lstrip(Tail(s), chars) ELSE s

RECURSIVE rstrip(_, _)
rstrip(s, chars) ==
    IF s # <<>> /\ s[Len(s)] \in chars
    THEN rstrip(SubSeq(s, 1, Len(s) - 1), chars)
    ELSE s

strip(s, chars) == rstrip(lstrip(s, chars), chars)

\* str.join: the parts with sep between them.
RECURSIVE join(_, _)
join(sep, parts) ==
    IF parts = <<>> THEN <<>>
    ELSE IF Len(parts) = 1 THEN parts[1]
    ELSE parts[1] \o sep \o join(sep, Tail(parts))

\* The value of a non-empty run of decimal digits.
RECURSIVE DigitsValue(_)
DigitsValue(s) ==
    IF s = <<>> THEN 0
    ELSE DigitsValue(SubSeq(s, 1, Len(s) - 1)) * 10 + DigitVal(s[Len(s)])

\* int(text): surrounding whitespace dropped, an optional sign, then digits;
\* anything else raises ValueError (ok = FALSE).
int(text) ==
    LET t == strip(text, {Space, NL})
        signed == t # <<>> /\ Head(t) \in {"-", "+"}
        body == IF signed THEN Tail(t) ELSE t
        good == body # <<>> /\ \A i \in 1..Len(body) : IsDigit(body[i])
    IN  IF ~good THEN [ok |-> FALSE, val |-> 0]
        ELSE [ok |-> TRUE,
              val |-> IF signed /\ Head(t) = "-"
                      THEN 0 - DigitsValue(body) ELSE DigitsValue(body)]

\* Mutant of ListIndex: the index taken as 1-based.
ListIndexOneBased(list, i) ==
    IF 1 <= i /\ i <= Len(list) THEN [ok |-> TRUE, val |-> Some(list[i])]
    ELSE [ok |-> FALSE, val |-> None]

\* list[i]: Python indexing, negative indexes counted from the end;
\* outside -len..len-1 raises IndexError (ok = FALSE).
ListIndex(list, i) ==
    IF 0 <= i /\ i < Len(list) THEN [ok |-> TRUE, val |-> Some(list[i + 1])]
    ELSE IF i < 0 /\ 0 - i <= Len(list)
         THEN [ok |-> TRUE, val |-> Some(list[Len(list) + i + 1])]
         ELSE [ok |-> FALSE, val |-> None]

\* The decimal text of an integer, as the picker prints its index.
RECURSIVE NatText(_)
NatText(n) ==
    IF n < 10 THEN <<Digits[n + 1]>> ELSE NatText(n \div 10) \o <<Digits[(n % 10) + 1]>>

IntText(k) == IF k < 0 THEN <<"-">> \o NatText(0 - k) ELSE NatText(k)

\* ------------------------------------------------------------------ records

Tune(name, id, type) == [name |-> name, id |-> id, type |-> type]

TuneSetting(id, meter, key, abc) == [id |-> id, meter |-> meter, key |-> key, abc |-> abc]

\* What a call ends in: a returned value, a raised exception (SearchException
\* carries its query in text), or exit(code).
Return(v) == [kind |-> "return", value |-> v, exc |-> "", text |-> <<>>, code |-> 0]
Raise(e, t) == [kind |-> "raise", value |-> <<>>, exc |-> e, text |-> t, code |-> 0]
Exit(c) == [kind |-> "exit", value |-> <<>>, exc |-> "SystemExit", text |-> <<>>, code |-> c]

\* ------------------------------------------------------------- extraction

Min(a, b) == IF a <= b THEN a ELSE b

\* Mutant of zip: as many triples as the longest of the three holds, the
\* missing entries empty.
zip_padded(a, b, c) ==
    LET n == IF Len(a) >= Len(b) /\ Len(a) >= Len(c) THEN Len(a)
             ELSE IF Len(b) >= Len(c) THEN Len(b) ELSE Len(c)
        at(s, i) == IF i <= Len(s) THEN s[i] ELSE <<>>
    IN  [i \in 1..n |-> <<at(a, i), at(b, i), at(c, i)>>]

\* zip(a, b, c): as many triples as the shortest of the three holds.
zip(a, b, c) ==
    [i \in 1..Min(Len(a), Min(Len(b), Len(c))) |-> <<a[i], b[i], c[i]>>]

\* Mutant of map_strip_newline: only the leading newlines are dropped.
map_lstrip_newline(xs) == [i \in 1..Len(xs) |-> lstrip(xs[i], {NL})]

\* map(f, xs) for the lambda of get_search_tunes: s.strip('\n').
map_strip_newline(xs) == [i \in 1..Len(xs) |-> strip(xs[i], {NL})]

\* Response.raise_for_status(): requests raises HTTPError for the statuses
\* 400..599 and for no other.
raise_for_status(status) == 400 <= status /\ status < 600

\* A page is the document tree as the XPath queries see it: the three
\* per-field results of a list page, the text of each notes element of a
\* tune page.
extract_popular(page) ==
    LET z == zip(page.names, page.ids, page.types)
    IN  [i \in 1..Len(z) |-> Tune(z[i][1], z[i][2], z[i][3])]

\* Mutant of extract_search: the id and type results zipped in the wrong order.
extract_search_swapped(page) ==
    LET z == zip(page.names, map_strip_newline(page.types), page.ids)
    IN  [i \in 1..Len(z) |-> Tune(z[i][1], z[i][2], z[i][3])]

extract_search(page) ==
    LET z == zip(page.names, page.ids, map_strip_newline(page.types))
    IN  [i \in 1..Len(z) |-> Tune(z[i][1], z[i][2], z[i][3])]

\* ls[1] of the header line, stripped; IndexError when the line has no colon.
HeaderValue(ls) ==
    IF Len(ls) < 2 THEN [ok |-> FALSE, val |-> None]
    ELSE [ok |-> TRUE, val |-> Some(strip(ls[2], {Space, NL}))]

\* The loop over the lines of one notes element; acc holds s_id, s_meter,
\* s_key, s_abc and whether ls[1] raised IndexError.
RECURSIVE scan_lines(_, _)
scan_lines(lines, acc) ==
    IF lines = <<>> \/ ~acc.ok THEN acc
    ELSE LET line == Head(lines)
             ls == split(line, Colon)
             hv == HeaderValue(ls)
             isHeader == ls[1] \in {<<"X">>, <<"M">>, <<"K">>}
             next ==
                 IF line = <<>> THEN acc
                 ELSE IF isHeader /\ ~hv.ok THEN [acc EXCEPT !.ok = FALSE]
                 ELSE [ok |-> TRUE,
                       id |-> IF ls[1] = <<"X">> THEN hv.val ELSE acc.id,
                       meter |-> IF ls[1] = <<"M">> THEN hv.val ELSE acc.meter,
                       key |-> IF ls[1] = <<"K">> THEN hv.val ELSE acc.key,
                       abc |-> Append(acc.abc, line)]
         IN  scan_lines(Tail(lines), next)

parse_setting(text) ==
    scan_lines(split(text, NL),
               [ok |-> TRUE, id |-> None, meter |-> None, key |-> None, abc |-> <<>>])

\* Mutant of extract_settings: the lines joined by blanks, not by newlines.
extract_settings_blank_join(elements) ==
    LET parsed == [i \in 1..Len(elements) |-> parse_setting(elements[i])]
    IN  IF \E i \in 1..Len(elements) : ~parsed[i].ok
        THEN Raise("IndexError", <<>>)
        ELSE Return([i \in 1..Len(elements) |->
                        TuneSetting(parsed[i].id, parsed[i].meter, parsed[i].key,
                                    join(<<Space>>, parsed[i].abc))])

extract_settings(elements) ==
    LET parsed == [i \in 1..Len(elements) |-> parse_setting(elements[i])]
    IN  IF \E i \in 1..Len(elements) : ~parsed[i].ok
        THEN Raise("IndexError", <<>>)
        ELSE Return([i \in 1..Len(elements) |->
                        TuneSetting(parsed[i].id, parsed[i].meter, parsed[i].key,
                                    join(<<NL>>, parsed[i].abc))])

\* The three fetch operations, given what the catalog answers.
get_popular_tunes(status, page) ==
    IF raise_for_status(status) THEN Raise("HTTPError", <<>>)
    ELSE Return(extract_popular(page))

\* Mutant of get_search_tunes: resp.raise_for_status() is missing.
get_search_tunes_unchecked(status, page) == Return(extract_search(page))

\* Mutant of get_search_tunes: a page without a tune is an error.
get_search_tunes_nonempty(status, page) ==
    IF raise_for_status(status) THEN Raise("HTTPError", <<>>)
    ELSE IF extract_search(page) = <<>> THEN Raise("ValueError", <<>>)
    ELSE Return(extract_search(page))

get_search_tunes(status, page) ==
    IF raise_for_status(status) THEN Raise("HTTPError", <<>>)
    ELSE Return(extract_search(page))

get_tune_settings(status, elements) ==
    IF raise_for_status(status) THEN Raise("HTTPError", <<>>)
    ELSE extract_settings(elements)

\* -------------------------------------------------------------- selection

\* The markers of a menu line; "#" stands for U+266B and "%" for U+266C.
TUNE_PREFIX == "#"
SETTING_PREFIX == "%"

\* str(v) as str.format renders a field: the text, or None for an absent one.
Str(opt) == IF opt = None THEN <<"N", "o", "n", "e">> ELSE opt[1]

\* "{prefix} {tune_name} [{tune_type}]"
format_tune(t) == <<TUNE_PREFIX, Space>> \o t.name \o <<Space, "[">> \o t.type \o <<"]">>

_format_tunes(tunes_) ==
    join(<<NL>>, [i \in 1..Len(tunes_) |-> format_tune(tunes_[i])])

\* "{prefix} ({id}) {key} {meter}"
format_setting(st) ==
    <<SETTING_PREFIX, Space, "(">> \o Str(st.id) \o <<")", Space>> \o Str(st.key)
        \o <<Space>> \o Str(st.meter)

_format_settings(settings_) ==
    join(<<NL>>, [i \in 1..Len(settings_) |-> format_setting(settings_[i])])

\* Mutant of select_tune: the index < 0 test is missing, so a negative index
\* reaches the list lookup.
select_tune_unguarded(tunes_, returncode, stdout) ==
    IF returncode # 0 THEN Exit(returncode)
    ELSE LET rofi_output == split(stdout, Colon)
             index == int(rofi_output[1])
         IN  IF ~index.ok THEN Raise("ValueError", <<>>)
             ELSE LET item == ListIndex(tunes_, index.val)
                  IN  IF item.ok THEN Return(item.val) ELSE Raise("IndexError", <<>>)

\* Mutant of select_tune: exit(1) in place of exit(rofi_result.returncode).
select_tune_exit_one(tunes_, returncode, stdout) ==
    IF returncode # 0 THEN Exit(1)
    ELSE LET rofi_output == split(stdout, Colon)
             index == int(rofi_output[1])
         IN  IF ~index.ok THEN Raise("ValueError", <<>>)
             ELSE IF index.val < 0
             THEN IF Len(rofi_output) < 2 THEN Raise("IndexError", <<>>)
                  ELSE Raise("SearchException", rofi_output[2])
             ELSE LET item == ListIndex(tunes_, index.val)
                  IN  IF item.ok THEN Return(item.val) ELSE Raise("IndexError", <<>>)

\* What follows subprocess.run in select_tune, given rofi's return code and
\* standard output.
select_tune(tunes_, returncode, stdout) ==
    IF returncode # 0 THEN Exit(returncode)
    ELSE LET rofi_output == split(stdout, Colon)
             index == int(rofi_output[1])
         IN  IF ~index.ok THEN Raise("ValueError", <<>>)
             ELSE IF index.val < 0
             THEN IF Len(rofi_output) < 2 THEN Raise("IndexError", <<>>)
                  ELSE Raise("SearchException", rofi_output[2])
             ELSE LET item == ListIndex(tunes_, index.val)
                  IN  IF item.ok THEN Return(item.val) ELSE Raise("IndexError", <<>>)

\* Mutant of select_setting: the index < 0 test is missing.
select_setting_unguarded(settings_, returncode, stdout) ==
    IF returncode # 0 THEN Exit(returncode)
    ELSE LET rofi_output == split(stdout, Colon)
             index == int(rofi_output[1])
         IN  IF ~index.ok THEN Raise("ValueError", <<>>)
             ELSE LET item == ListIndex(settings_, index.val)
                  IN  IF item.ok THEN Return(item.val) ELSE Raise("IndexError", <<>>)

select_setting(settings_, returncode, stdout) ==
    IF returncode # 0 THEN Exit(returncode)
    ELSE LET rofi_output == split(stdout, Colon)
             index == int(rofi_output[1])
         IN  IF ~index.ok THEN Raise("ValueError", <<>>)
             ELSE IF index.val < 0 THEN Raise("ValueError", <<>>)
             ELSE LET item == ListIndex(settings_, index.val)
                  IN  IF item.ok THEN Return(item.val) ELSE Raise("IndexError", <<>>)

\* ------------------------------------------------------------ environment

\* sys.argv[1:] of the runs modelled.
Argvs == {<<>>, <<<<"a">>>>, <<<<"a">>, <<"b">>>>}

\* HTTP statuses the catalog answers with.
Statuses == {200, 304, 404, 503}

Cooleys == <<"C", "o", "o", "l", "e", "y", "'", "s">>
DrowsyMaggie == <<"D", "r", "o", "w", "s", "y", " ", "M", "a", "g", "g", "i", "e">>
Reel == <<"r", "e", "e", "l">>

\* Search pages: two tunes; no match; a type node wrapped in newlines and
\* one type node missing; a type node with a line break inside.
SearchPages ==
    { [names |-> <<Cooleys, DrowsyMaggie>>,
       ids |-> << <<"5", "0">>, <<"2", "3">> >>,
       types |-> <<Reel, Reel>>],
      [names |-> <<>>, ids |-> <<>>, types |-> <<>>],
      [names |-> <<Cooleys, DrowsyMaggie>>,
       ids |-> << <<"5", "0">>, <<"2", "3">> >>,
       types |-> << <<NL>> \o Reel \o <<NL>> >>],
      [names |-> <<Cooleys, DrowsyMaggie>>,
       ids |-> << <<"5", "0">>, <<"2", "3">> >>,
       types |-> << <<NL, "s", "l", "i", "p", NL, "j", "i", "g", NL>>, Reel>>] }

ScenarioB ==
    <<"X", ":", "1", NL, "M", ":", "4", "/", "4", NL,
      "K", ":", "E", "d", "o", "r", NL, "A", " ", "B", " ", "c", " ", "d", "|">>

\* Tune pages, as the text of their notes elements: no setting, one setting,
\* two settings (the second without X and M lines), a K line without a colon.
DetailPages ==
    { <<>>,
      <<ScenarioB>>,
      <<ScenarioB, <<"K", ":", "D", NL, NL, "d", "2">> >>,
      << <<"K", NL, "d", "2">> >> }

\* rofi's return codes: 0, cancelled (1), custom key binding (10), killed by
\* a signal (subprocess reports -9).
ReturnCodes == {0, 1, 10, -9}

\* What the user typed or picked, as rofi echoes it after the index.
ReplyTexts == {<<"x">>, <<"n", "e", "w", " ", "q">>, <<"x", ":", "y">>}

\* rofi -format i:s prints "<index>:<text>" when it returns 0, nothing otherwise.
PickerReplies ==
    { [rc |-> c, k |-> 0, text |-> <<>>, out |-> <<>>] : c \in ReturnCodes \ {0} }
    \cup
    { [rc |-> 0, k |-> k, text |-> t, out |-> IntText(k) \o <<Colon>> \o t] :
        k \in (0 - 1)..MaxIndex, t \in ReplyTexts }

\* The exit status of an uncaught exception.
UncaughtExit == 1

\* The exit status the parent sees for exit(code).
ExitStatus(code) == code % 256

Procs == {"pdf_viewer", "ps2pdf", "abcm2ps"}

\* The stdout argument of each Popen: the process whose stdin it is.
Wiring == [pdf_viewer |-> "", ps2pdf |-> "pdf_viewer", abcm2ps |-> "ps2pdf"]

\* Exit codes of the converters and the viewer.
ProcCodes == {0, 1}

\* ------------------------------------------------------------------ state

VARIABLES
    pc,        \* the next step of search_and_display, "done" once the program ended
    query,     \* search_and_display's query
    tunes,     \* the list passed to select_tune
    tune,      \* search_and_display's tune: None or the selected Tune
    settings,  \* the list passed to select_setting
    setting,   \* the selected TuneSetting, None before
    outcome,   \* "running", "completed", "exit" (exit(code)), "error" (uncaught exception)
    exitCode,  \* the program's exit status once it ended
    exc,       \* the uncaught exception's class, "" when none
    signal,    \* the query of the SearchException caught last, None when none
    iter,      \* how many times the loop re-queried
    last,      \* the step taken last
    rofi,      \* what the picker answered last
    fetched,   \* the HTTP request made last
    count,     \* how many fetches, picker runs and process starts happened
    proc,      \* each process of display_abc: "none", "running", "exited"
    stdin,     \* whether the program's handle on each process's stdin is open
    fed,       \* what was written to abcm2ps: None or the text
    returncode, \* each process's exit code
    stdout,    \* whose stdin each process's stdout was connected to, "" when none
    menu,      \* the text handed to the picker last (input_str)
    trace,     \* the steps taken so far, in order
    call,      \* a function called on its own: its name and arguments
    result     \* what that call ended in, None before

vars == <<pc, query, tunes, tune, settings, setting, outcome, exitCode, exc, signal,
          iter, last, rofi, fetched, count, proc, stdin, fed, returncode, stdout, menu,
          trace, call, result>>

progVars == <<query, tunes, tune, settings, setting, signal, iter>>
dispVars == <<proc, stdin, fed, returncode, stdout>>
endVars == <<outcome, exitCode, exc>>
callVars == <<call, result>>

NoReply == [rc |-> 0, k |-> 0, text |-> <<>>, out |-> <<>>, mode |-> "", n |-> 0]
NoFetch == [op |-> "", arg |-> <<>>, status |-> 0]
NoCall == [fn |-> "", status |-> 0, page |-> [names |-> <<>>, ids |-> <<>>, types |-> <<>>],
           elements |-> <<>>]

\* if __name__ == '__main__': the query is the arguments joined by spaces.
InitProgram ==
    /\ pc = "get_search_tunes"
    /\ call = NoCall
    /\ result = None
    /\ \E argv \in Argvs : query = join(<<Space>>, argv)
    /\ tunes = <<>>
    /\ tune = None
    /\ settings = <<>>
    /\ setting = None
    /\ outcome = "running"
    /\ exitCode = 0
    /\ exc = ""
    /\ signal = None
    /\ iter = 0
    /\ last = "main"
    /\ rofi = NoReply
    /\ fetched = NoFetch
    /\ count = [search |-> 0, tune |-> 0, picker |-> 0, popen |-> 0]
    /\ proc = [p \in Procs |-> "none"]
    /\ stdin = [p \in Procs |-> FALSE]
    /\ fed = None
    /\ returncode = [p \in Procs |-> 0]
    /\ stdout = [p \in Procs |-> ""]
    /\ menu = <<>>
    /\ trace = <<>>

\* Mutant of caught: a bare except, which catches SystemExit and every error.
caught_everything(r) == r.kind \in {"raise", "exit"}

\* except SearchException: the only exception the loop catches.
caught(r) == r.kind = "raise" /\ r.exc = "SearchException"

\* exit(code) and every exception the loop does not catch end the program.
Terminate(r) ==
    /\ pc' = "done"
    /\ outcome' = IF r.kind = "exit" THEN "exit" ELSE "error"
    /\ exitCode' = IF r.kind = "exit" THEN ExitStatus(r.code) ELSE UncaughtExit
    /\ exc' = r.exc

\* Mutant of Requery: the loop goes round without taking the new query.
RequeryKeepsQuery(r) ==
    /\ iter < MaxRequery
    /\ query' = query
    /\ signal' = Some(r.text)
    /\ iter' = iter + 1
    /\ pc' = "get_search_tunes"
    /\ UNCHANGED <<outcome, exitCode, exc>>

\* except SearchException as se: query = se.query, and the loop goes round.
Requery(r) ==
    /\ iter < MaxRequery
    /\ query' = r.text
    /\ signal' = Some(r.text)
    /\ iter' = iter + 1
    /\ pc' = "get_search_tunes"
    /\ UNCHANGED <<outcome, exitCode, exc>>

Count(what) == [count EXCEPT ![what] = @ + 1]

\* tune = select_tune(get_search_tunes(query=query)), first half: the fetch.
FetchSearch ==
    /\ pc = "get_search_tunes"
    /\ \E status \in Statuses, page \in SearchPages :
         LET r == get_search_tunes(status, page)
         IN  /\ fetched' = [op |-> "search", arg |-> query, status |-> status]
             /\ IF r.kind = "return"
                THEN /\ tunes' = r.value
                     /\ pc' = "select_tune"
                     /\ UNCHANGED <<query, signal, iter, endVars>>
                ELSE IF caught(r)
                THEN Requery(r) /\ UNCHANGED tunes
                ELSE Terminate(r) /\ UNCHANGED <<tunes, query, signal, iter>>
    /\ last' = "get_search_tunes"
    /\ trace' = Append(trace, "get_search_tunes")
    /\ count' = Count("search")
    /\ UNCHANGED <<tune, settings, setting, rofi, menu, dispVars, callVars>>

\* Second half: rofi runs on the formatted list and select_tune decodes its
\* answer; while not tune: the loop ends once a tune was returned.
SelectTune ==
    /\ pc = "select_tune"
    /\ \E reply \in PickerReplies :
         LET r == select_tune(tunes, reply.rc, reply.out)
         IN  /\ rofi' = [rc |-> reply.rc, k |-> reply.k, text |-> reply.text,
                         out |-> reply.out, mode |-> "tune", n |-> Len(tunes)]
             /\ menu' = _format_tunes(tunes)
             /\ IF r.kind = "return"
                THEN /\ tune' = r.value
                     /\ pc' = "get_tune_settings"
                     /\ UNCHANGED <<query, signal, iter, endVars>>
                ELSE IF caught(r)
                THEN Requery(r) /\ UNCHANGED tune
                ELSE Terminate(r) /\ UNCHANGED <<tune, query, signal, iter>>
    /\ last' = "select_tune"
    /\ trace' = Append(trace, "select_tune")
    /\ count' = Count("picker")
    /\ UNCHANGED <<tunes, settings, setting, fetched, dispVars, callVars>>

\* get_tune_settings(tune.id)
FetchSettings ==
    /\ pc = "get_tune_settings"
    /\ \E status \in Statuses, elements \in DetailPages :
         LET r == get_tune_settings(status, elements)
         IN  /\ fetched' = [op |-> "tune", arg |-> tune[1].id, status |-> status]
             /\ IF r.kind = "return"
                THEN /\ settings' = r.value
                     /\ pc' = "select_setting"
                     /\ UNCHANGED endVars
                ELSE Terminate(r) /\ UNCHANGED settings
    /\ last' = "get_tune_settings"
    /\ trace' = Append(trace, "get_tune_settings")
    /\ count' = Count("tune")
    /\ UNCHANGED <<query, tunes, tune, setting, signal, iter, rofi, menu, dispVars, callVars>>

\* select_setting(...): outside the try, so every exception ends the program.
SelectSetting ==
    /\ pc = "select_setting"
    /\ \E reply \in PickerReplies :
         LET r == select_setting(settings, reply.rc, reply.out)
         IN  /\ rofi' = [rc |-> reply.rc, k |-> reply.k, text |-> reply.text,
                         out |-> reply.out, mode |-> "setting", n |-> Len(settings)]
             /\ menu' = _format_settings(settings)
             /\ IF r.kind = "return"
                THEN /\ setting' = r.value
                     /\ pc' = "popen_pdf_viewer"
                     /\ UNCHANGED endVars
                ELSE Terminate(r) /\ UNCHANGED setting
    /\ last' = "select_setting"
    /\ trace' = Append(trace, "select_setting")
    /\ count' = Count("picker")
    /\ UNCHANGED <<query, tunes, tune, settings, signal, iter, fetched, dispVars, callVars>>

\* ------------------------------------------------------------ display_abc

Popen(p, next) ==
    /\ proc' = [proc EXCEPT ![p] = "running"]
    /\ stdin' = [stdin EXCEPT ![p] = TRUE]
    /\ pc' = next
    /\ last' = "Popen"
    /\ trace' = Append(trace, p)
    /\ stdout' = [stdout EXCEPT ![p] = Wiring[p]]
    /\ count' = Count("popen")
    /\ UNCHANGED <<progVars, endVars, rofi, menu, fetched, fed, returncode, callVars>>

\* pdf_viewer = subprocess.Popen(PDF_VIEWER_CMD, stdin=subprocess.PIPE)
PopenViewer == pc = "popen_pdf_viewer" /\ Popen("pdf_viewer", "popen_ps2pdf")

\* ps2pdf = subprocess.Popen(PS2PDF_CMD, stdin=subprocess.PIPE, stdout=pdf_viewer.stdin)
PopenPs2pdf == pc = "popen_ps2pdf" /\ Popen("ps2pdf", "popen_abcm2ps")

\* abcm2ps = subprocess.Popen(ABC2PS_CMD, stdin=subprocess.PIPE, stdout=ps2pdf.stdin)
PopenAbcm2ps == pc = "popen_abcm2ps" /\ Popen("abcm2ps", "abcm2ps_write")

\* abcm2ps.communicate(input=...): write the notation and close stdin (a
\* broken pipe is ignored), ...
Abcm2psWrite ==
    /\ pc = "abcm2ps_write"
    /\ fed' = IF proc["abcm2ps"] = "running" THEN Some(setting[1].abc) ELSE None
    /\ stdin' = [stdin EXCEPT !["abcm2ps"] = FALSE]
    /\ pc' = "abcm2ps_wait"
    /\ last' = "abcm2ps.communicate"
    /\ trace' = Append(trace, "abcm2ps.communicate")
    /\ UNCHANGED <<progVars, endVars, rofi, menu, fetched, count, proc, returncode, stdout,
                   callVars>>

\* Mutant of Abcm2psWait: a non-zero exit code of abcm2ps is an error.
Abcm2psWaitChecked ==
    /\ pc = "abcm2ps_wait"
    /\ proc["abcm2ps"] = "exited"
    /\ IF returncode["abcm2ps"] = 0
       THEN pc' = "ps2pdf_close" /\ UNCHANGED endVars
       ELSE Terminate(Raise("CalledProcessError", <<>>))
    /\ last' = "abcm2ps.wait"
    /\ trace' = Append(trace, "abcm2ps.wait")
    /\ UNCHANGED <<progVars, rofi, menu, fetched, count, dispVars, callVars>>

\* ... then wait for abcm2ps to exit.
Abcm2psWait ==
    /\ pc = "abcm2ps_wait"
    /\ proc["abcm2ps"] = "exited"
    /\ pc' = "ps2pdf_close"
    /\ last' = "abcm2ps.wait"
    /\ trace' = Append(trace, "abcm2ps.wait")
    /\ UNCHANGED <<progVars, endVars, rofi, menu, fetched, count, dispVars, callVars>>

\* Mutant of Ps2pdfClose: the program keeps its handle on ps2pdf's stdin.
Ps2pdfKeepOpen ==
    /\ pc = "ps2pdf_close"
    /\ pc' = "ps2pdf_wait"
    /\ last' = "ps2pdf.communicate"
    /\ trace' = Append(trace, "ps2pdf.communicate")
    /\ UNCHANGED <<progVars, endVars, rofi, menu, fetched, count, dispVars, callVars>>

\* ps2pdf.communicate(): close stdin, ...
Ps2pdfClose ==
    /\ pc = "ps2pdf_close"
    /\ stdin' = [stdin EXCEPT !["ps2pdf"] = FALSE]
    /\ pc' = "ps2pdf_wait"
    /\ last' = "ps2pdf.communicate"
    /\ trace' = Append(trace, "ps2pdf.communicate")
    /\ UNCHANGED <<progVars, endVars, rofi, menu, fetched, count, proc, fed, returncode,
                   stdout, callVars>>

\* Mutant of Ps2pdfWait: the program goes on without waiting for ps2pdf.
Ps2pdfNoWait ==
    /\ pc = "ps2pdf_wait"
    /\ pc' = "pdf_viewer_close"
    /\ last' = "ps2pdf.wait"
    /\ trace' = Append(trace, "ps2pdf.wait")
    /\ UNCHANGED <<progVars, endVars, rofi, menu, fetched, count, dispVars, callVars>>

\* ... then wait for ps2pdf to exit.
Ps2pdfWait ==
    /\ pc = "ps2pdf_wait"
    /\ proc["ps2pdf"] = "exited"
    /\ pc' = "pdf_viewer_close"
    /\ last' = "ps2pdf.wait"
    /\ trace' = Append(trace, "ps2pdf.wait")
    /\ UNCHANGED <<progVars, endVars, rofi, menu, fetched, count, dispVars, callVars>>

\* pdf_viewer.stdin.close(); display_abc and search_and_display return and
\* the program ends.
ViewerClose ==
    /\ pc = "pdf_viewer_close"
    /\ stdin' = [stdin EXCEPT !["pdf_viewer"] = FALSE]
    /\ pc' = "done"
    /\ outcome' = "completed"
    /\ exitCode' = 0
    /\ last' = "pdf_viewer.stdin.close"
    /\ trace' = Append(trace, "pdf_viewer.stdin.close")
    /\ UNCHANGED <<progVars, exc, rofi, menu, fetched, count, proc, fed, returncode, stdout,
                   callVars>>

\* A started process exits, with any code, at a moment of its own choosing.
ProcExit ==
    \E p \in Procs, code \in ProcCodes :
        /\ proc[p] = "running"
        /\ proc' = [proc EXCEPT ![p] = "exited"]
        /\ returncode' = [returncode EXCEPT ![p] = code]
        /\ UNCHANGED <<pc, progVars, endVars, last, trace, rofi, menu, fetched, count, stdin,
                       fed, stdout,
                       callVars>>

\* ------------------------------------------- the functions called on their own

RECURSIVE SeqsUpTo(_, _)
SeqsUpTo(S, n) ==
    IF n = 0 THEN {<<>>}
    ELSE LET shorter == SeqsUpTo(S, n - 1)
         IN  shorter \cup {Append(q, x) : q \in {r \in shorter : Len(r) = n - 1}, x \in S}

NameSet == {<<"a">>, <<"b">>}
IdSet == {<<"1">>, <<"2">>}
TypeSet == {<<"r">>, <<NL, "j", NL, "g", NL, NL>>, <<NL>>}

ListPages ==
    { [names |-> n, ids |-> i, types |-> t] :
        n \in SeqsUpTo(NameSet, MaxLen), i \in SeqsUpTo(IdSet, MaxLen),
        t \in SeqsUpTo(TypeSet, MaxLen) }

\* Lines of a notes element: headers, a header after which the value holds
\* blanks or a second colon, a header letter without a colon, music, an
\* empty line, a line whose prefix is longer than a header letter.
LineSet ==
    { <<"X", ":", "1">>, <<"M", ":", " ", "6", "/", "8", " ">>, <<"K", ":", "D">>,
      <<"K", ":", "a", ":", "b">>, <<"M">>, <<"d", "2">>, <<>>, <<"X", "K", ":", "1">> }

Blocks == { join(<<NL>>, ls) : ls \in SeqsUpTo(LineSet, MaxLines) } \cup {ScenarioB}

ElementLists ==
    {<<>>} \cup { <<b>> : b \in Blocks } \cup { <<ScenarioB, b>> : b \in Blocks }

Calls ==
    { [fn |-> f, status |-> s, page |-> p, elements |-> <<>>] :
        f \in {"get_popular_tunes", "get_search_tunes"}, s \in Statuses, p \in ListPages }
    \cup
    { [fn |-> "get_tune_settings", status |-> s, page |-> NoCall.page, elements |-> e] :
        s \in Statuses, e \in ElementLists }

InitCall ==
    /\ pc = "call"
    /\ call \in Calls
    /\ result = None
    /\ query = <<>>
    /\ tunes = <<>>
    /\ tune = None
    /\ settings = <<>>
    /\ setting = None
    /\ outcome = "running"
    /\ exitCode = 0
    /\ exc = ""
    /\ signal = None
    /\ iter = 0
    /\ last = "call"
    /\ rofi = NoReply
    /\ fetched = NoFetch
    /\ count = [search |-> 0, tune |-> 0, picker |-> 0, popen |-> 0]
    /\ proc = [p \in Procs |-> "none"]
    /\ stdin = [p \in Procs |-> FALSE]
    /\ fed = None
    /\ returncode = [p \in Procs |-> 0]
    /\ stdout = [p \in Procs |-> ""]
    /\ menu = <<>>
    /\ trace = <<>>

Returned(r) ==
    /\ result' = Some(r)
    /\ pc' = "returned"
    /\ UNCHANGED <<progVars, endVars, last, trace, rofi, menu, fetched, count, dispVars, call>>

CallPopular ==
    /\ pc = "call" /\ call.fn = "get_popular_tunes"
    /\ Returned(get_popular_tunes(call.status, call.page))

CallSearch ==
    /\ pc = "call" /\ call.fn = "get_search_tunes"
    /\ Returned(get_search_tunes(call.status, call.page))

CallSettings ==
    /\ pc = "call" /\ call.fn = "get_tune_settings"
    /\ Returned(get_tune_settings(call.status, call.elements))

\* ---------------------------------------------------------- specification

Init == InitProgram \/ InitCall

Next ==
    \/ FetchSearch
    \/ SelectTune
    \/ FetchSettings
    \/ SelectSetting
    \/ PopenViewer
    \/ PopenPs2pdf
    \/ PopenAbcm2ps
    \/ Abcm2psWrite
    \/ Abcm2psWait
    \/ Ps2pdfClose
    \/ Ps2pdfWait
    \/ ViewerClose
    \/ ProcExit
    \/ CallPopular
    \/ CallSearch
    \/ CallSettings

Spec == Init /\ [][Next]_vars

\* The processes of display_abc when each reads its stdin to the end and then
\* exits. A pipe is at its end once every handle on its write side is closed:
\* the program's own (Popen's stdin=PIPE) and the stdout of the process that
\* was started with it.
Eof(p) ==
    /\ ~stdin[p]
    /\ \A q \in Procs : stdout[q] = p => proc[q] = "exited"

ProcExitAtEof(p) ==
    /\ proc[p] = "running"
    /\ Eof(p)
    /\ \E code \in ProcCodes :
         /\ proc' = [proc EXCEPT ![p] = "exited"]
         /\ returncode' = [returncode EXCEPT ![p] = code]
    /\ UNCHANGED <<pc, progVars, endVars, last, trace, rofi, menu, fetched, count, stdin,
                   fed, stdout, callVars>>

\* The statements of display_abc.
DisplayAbc ==
    \/ PopenViewer
    \/ PopenPs2pdf
    \/ PopenAbcm2ps
    \/ Abcm2psWrite
    \/ Abcm2psWait
    \/ Ps2pdfClose
    \/ Ps2pdfWait
    \/ ViewerClose

NextEof ==
    \/ FetchSearch
    \/ SelectTune
    \/ FetchSettings
    \/ SelectSetting
    \/ DisplayAbc
    \/ \E p \in Procs : ProcExitAtEof(p)

\* The interpreter runs the next statement of display_abc whenever it can,
\* and a process at the end of its input does exit.
SpecEof ==
    /\ InitProgram
    /\ [][NextEof]_vars
    /\ WF_vars(DisplayAbc)
    /\ \A p \in Procs : WF_vars(ProcExitAtEof(p))

\* ------------------------------------------------------------------ claims

AfterSelectTune == last = "select_tune"
AfterSelectSetting == last = "select_setting"
Ended == pc = "done"

\* C1: when the picker returns 0 and replies "k:text" with 0 <= k < N, select_tune
\* and select_setting return the candidate at index k of the list passed in.
C1_SelectedIsCandidateK ==
    /\ (AfterSelectTune /\ rofi.rc = 0 /\ 0 <= rofi.k /\ rofi.k < Len(tunes))
         => (outcome = "running" /\ tune = Some(tunes[rofi.k + 1]))
    /\ (AfterSelectSetting /\ rofi.rc = 0 /\ 0 <= rofi.k /\ rofi.k < Len(settings))
         => (outcome = "running" /\ setting = Some(settings[rofi.k + 1]))

\* Scenario A, then the second of two settings picked.
C1_Witness ==
    /\ AfterSelectSetting /\ rofi.rc = 0 /\ rofi.k = 1
    /\ Len(tunes) = 2 /\ tunes[1].id = <<"5", "0">>
    /\ tune # None /\ tune[1].id = <<"2", "3">> /\ tune[1].name = DrowsyMaggie
    /\ Len(settings) = 2 /\ setting = Some(settings[2])

\* C2: a non-zero picker exit code C, in tune or setting selection and in any
\* iteration of the loop, ends the program with exit code C (a picker killed by
\* signal n, return code -n, gives 256 - n); nothing is fetched, picked or
\* started after it.
C2_CancelEndsProgram ==
    ((AfterSelectTune \/ AfterSelectSetting) /\ rofi.rc # 0)
        => /\ Ended
           /\ outcome = "exit"
           /\ exitCode = IF rofi.rc > 0 THEN rofi.rc ELSE 256 + rofi.rc
           /\ \A p \in Procs : proc[p] = "none"
           /\ ~ENABLED Next

\* Cancelled with code 10 in tune selection, after a re-query.
C2_Witness ==
    AfterSelectTune /\ iter >= 1 /\ rofi.rc = 10 /\ exitCode = 10 /\ Ended

\* C3: in tune selection, a reply with exit code 0 and a negative index raises
\* the re-query signal carrying the whole text after the first colon of the reply.
C3_SignalCarriesRemainder ==
    (AfterSelectTune /\ rofi.rc = 0 /\ rofi.k < 0)
        => (signal = Some(rofi.text) /\ query = rofi.text)

\* C4: after a tune selection ends in a re-query with text T, the next step is
\* a search fetch whose query is T; no tune page is fetched while no tune is
\* selected.
C4_RequeryFetchesNewText ==
    /\ (AfterSelectTune /\ rofi.rc = 0 /\ rofi.k < 0)
         => (pc = "get_search_tunes" /\ outcome = "running" /\ signal # None
             /\ query = signal[1] /\ tune = None)
    /\ (last = "get_search_tunes" /\ iter > 0)
         => (signal # None /\ fetched.op = "search" /\ fetched.arg = signal[1])
    /\ (tune = None) => (count.tune = 0 /\ fetched.op # "tune")

\* Scenario C in the second iteration of the loop.
C4_Witness ==
    /\ last = "get_search_tunes" /\ iter = 2
    /\ fetched.arg = <<"n", "e", "w", " ", "q">>
    /\ rofi.text = <<"n", "e", "w", " ", "q">> /\ rofi.k = 0 - 1

\* C5: in setting selection, a reply with exit code 0 and a negative index ends
\* the program with an error: no re-query, no fetch, no second picker run and
\* no rendering process.
C5_NegativeSettingIsFatal ==
    (AfterSelectSetting /\ rofi.rc = 0 /\ rofi.k < 0)
        => /\ Ended
           /\ outcome = "error"
           /\ exc = "ValueError"
           /\ setting = None
           /\ count = [search |-> iter + 1, tune |-> 1, picker |-> iter + 2, popen |-> 0]
           /\ \A p \in Procs : proc[p] = "none"
           /\ ~ENABLED Next

C5_Witness ==
    AfterSelectSetting /\ rofi.rc = 0 /\ rofi.k = 0 - 1 /\ Len(settings) = 2 /\ Ended

\* C6: for a list of N candidates and a reply index k, no record is returned
\* for an index outside 0..N-1: k < 0 does not count from the end of the list,
\* and k >= N ends in an IndexError.
C6_NoRecordOutsideRange ==
    /\ (AfterSelectTune /\ rofi.rc = 0 /\ (rofi.k < 0 \/ rofi.k >= Len(tunes)))
         => tune = None
    /\ (AfterSelectTune /\ rofi.rc = 0 /\ rofi.k >= Len(tunes))
         => (Ended /\ outcome = "error" /\ exc = "IndexError")
    /\ (AfterSelectSetting /\ rofi.rc = 0 /\ (rofi.k < 0 \/ rofi.k >= Len(settings)))
         => setting = None
    /\ (AfterSelectSetting /\ rofi.rc = 0 /\ rofi.k >= Len(settings))
         => (Ended /\ outcome = "error" /\ exc = "IndexError")
    /\ (tune # None) => (\E i \in 1..Len(tunes) : tune = Some(tunes[i]))
    /\ (setting # None) => (\E i \in 1..Len(settings) : setting = Some(settings[i]))

\* The picker answers index 2 for a list of two tunes.
C6_Witness ==
    AfterSelectTune /\ rofi.rc = 0 /\ rofi.k = 2 /\ Len(tunes) = 2 /\ exc = "IndexError"

AfterFetch == last \in {"get_search_tunes", "get_tune_settings"}
AfterCall == pc = "returned"
FetchError == Some(Raise("HTTPError", <<>>))

C8_ZeroOrPickerCode ==
    Ended => \/ outcome = "completed" /\ exitCode = 0
             \/ outcome = "exit" /\ rofi.rc # 0 /\ exitCode = rofi.rc

\* C8 amended: a run that ends, ends with exit code 0 after a setting was
\* selected and rendered, or with the picker's non-zero exit code C (256 - n
\* when the picker was killed by signal n), or with exit code 1 after an
\* uncaught HTTPError, ValueError or IndexError.
C8_ZeroPickerCodeOrOne ==
    /\ Ended =>
         \/ /\ outcome = "completed" /\ exitCode = 0
            /\ setting # None /\ count.popen = 3 /\ ~stdin["pdf_viewer"]
         \/ /\ outcome = "exit" /\ rofi.rc # 0
            /\ exitCode = IF rofi.rc > 0 THEN rofi.rc ELSE 256 + rofi.rc
         \/ /\ outcome = "error" /\ exitCode = 1
            /\ exc \in {"HTTPError", "ValueError", "IndexError"}
    /\ (outcome # "running") => Ended

\* A run that ended with the picker's code 10, cancelled in tune selection.
C8_Witness ==
    Ended /\ outcome = "exit" /\ exitCode = 10 /\ AfterSelectTune

\* t is s without its leading and trailing newlines.
NewlineStripped(s, t) ==
    \E a, b \in 0..Len(s) :
        /\ a + b <= Len(s)
        /\ t = SubSeq(s, a + 1, Len(s) - b)
        /\ \A j \in 1..a : s[j] = NL
        /\ \A j \in (Len(s) - b + 1)..Len(s) : s[j] = NL
        /\ t = <<>> \/ (t[1] # NL /\ t[Len(t)] # NL)

\* C9: when the name, id and type results of a popular or search page have the
\* same length N, extraction gives N tunes in page order, tune i holding
\* name[i], id[i] and type[i] (type[i] without its leading and trailing
\* newlines for a search page).
C9_EqualLengthsZip ==
    (/\ AfterCall
     /\ call.fn \in {"get_popular_tunes", "get_search_tunes"}
     /\ result # FetchError
     /\ Len(call.page.names) = Len(call.page.ids)
     /\ Len(call.page.ids) = Len(call.page.types))
        => /\ result[1].kind = "return"
           /\ Len(result[1].value) = Len(call.page.names)
           /\ \A i \in 1..Len(call.page.names) :
                /\ result[1].value[i].name = call.page.names[i]
                /\ result[1].value[i].id = call.page.ids[i]
                /\ IF call.fn = "get_popular_tunes"
                   THEN result[1].value[i].type = call.page.types[i]
                   ELSE NewlineStripped(call.page.types[i], result[1].value[i].type)

\* A search page of two tunes, the first type wrapped in newlines.
C9_Witness ==
    /\ AfterCall /\ call.fn = "get_search_tunes" /\ call.status = 200
    /\ Len(call.page.names) = 2 /\ Len(call.page.ids) = 2 /\ Len(call.page.types) = 2
    /\ call.page.ids[1] # call.page.ids[2]
    /\ call.page.types[1] = <<NL, "j", NL, "g", NL, NL>>
    /\ result[1].value[1].type = <<"j", NL, "g">>

\* The lines of a notes element, and the header lines of one letter: the
\* non-empty lines whose text before the first colon is the letter.
LinesOf(text) == split(text, NL)

IsHeaderLine(line, letter) ==
    FindFirst(line, Colon) = 2 /\ line[1] = letter

AfterColon(line) == SubSeq(line, FindFirst(line, Colon) + 1, Len(line))

\* The field a block's header lines give: the trimmed text after the colon of
\* the last one, absent when there is none.
HeaderField(text, letter) ==
    LET lines == LinesOf(text)
        hs == {j \in 1..Len(lines) : IsHeaderLine(lines[j], letter)}
    IN  IF hs = {} THEN None
        ELSE Some(strip(AfterColon(lines[CHOOSE j \in hs : \A h \in hs : h <= j]),
                        {Space}))

\* C10: get_tune_settings sets id, meter and key of every notes element from
\* its X, M and K lines (the text after the first colon, trimmed), leaves a
\* field absent when the element has no such line, and never fails hard on
\* what an element holds.
C10_HeadersParsed ==
    (AfterCall /\ call.fn = "get_tune_settings" /\ result # FetchError)
        => /\ result[1].kind = "return"
           /\ Len(result[1].value) = Len(call.elements)
           /\ \A i \in 1..Len(call.elements) :
                /\ result[1].value[i].id = HeaderField(call.elements[i], "X")
                /\ result[1].value[i].meter = HeaderField(call.elements[i], "M")
                /\ result[1].value[i].key = HeaderField(call.elements[i], "K")


AfterSettingsCall ==
    AfterCall /\ call.fn = "get_tune_settings" /\ result # None /\ result[1].kind = "return"

NonEmptyLines(text) == SelectSeq(LinesOf(text), LAMBDA l : l # <<>>)

\* C11 as stated: the notation text of every TuneSetting, split by newline,
\* is exactly the non-empty lines of the notes element, verbatim and in order.
C11_NotationIsNonEmptyLines ==
    AfterSettingsCall =>
        \A i \in 1..Len(call.elements) :
            split(result[1].value[i].abc, NL) = NonEmptyLines(call.elements[i])

\* C11 amended: that holds of every notes element with a non-empty line; an
\* element without one gives the empty notation text, which split by newline
\* is one empty line.
C11_NotationIsNonEmptyLinesIfAny ==
    AfterSettingsCall =>
        /\ Len(result[1].value) = Len(call.elements)
        /\ \A i \in 1..Len(call.elements) :
             IF NonEmptyLines(call.elements[i]) # <<>>
             THEN split(result[1].value[i].abc, NL) = NonEmptyLines(call.elements[i])
             ELSE /\ result[1].value[i].abc = <<>>
                  /\ split(result[1].value[i].abc, NL) = << <<>> >>

\* Scenario B, followed by an element that starts with an empty line.
C11_Witness ==
    /\ AfterSettingsCall /\ Len(call.elements) = 2
    /\ call.elements[2] = <<NL, "K", ":", "D">>
    /\ result[1].value[1].abc = ScenarioB
    /\ result[1].value[1].key = Some(<<"E", "d", "o", "r">>)
    /\ split(result[1].value[2].abc, NL) = << <<"K", ":", "D">> >>


\* The steps of display_abc, in the order of its statements.
DisplayOrder ==
    <<"pdf_viewer", "ps2pdf", "abcm2ps", "abcm2ps.communicate", "abcm2ps.wait",
      "ps2pdf.communicate", "ps2pdf.wait", "pdf_viewer.stdin.close">>

IsDisplayStep(e) == \E i \in 1..Len(DisplayOrder) : DisplayOrder[i] = e

DisplaySteps == SelectSeq(trace, IsDisplayStep)

Took(e) == \E i \in 1..Len(trace) : trace[i] = e

\* C12: display_abc starts the viewer, then ps2pdf with its output on the
\* viewer's input, then abcm2ps with its output on ps2pdf's input; writes the
\* notation to abcm2ps and closes its input; waits for abcm2ps, then for
\* ps2pdf; and only then closes the viewer's input, never before both
\* converters have exited.
C12_PipelineOrder ==
    /\ DisplaySteps = SubSeq(DisplayOrder, 1, Len(DisplaySteps))
    /\ \A p \in Procs : (proc[p] # "none") <=> Took(p)
    /\ \A p \in Procs : (proc[p] # "none") => stdout[p] = Wiring[p]
    /\ stdout["ps2pdf"] \in {"", "pdf_viewer"} /\ stdout["abcm2ps"] \in {"", "ps2pdf"}
    /\ Took("abcm2ps.communicate")
         => (~stdin["abcm2ps"] /\ fed \in {None, Some(setting[1].abc)})
    /\ (Took("abcm2ps") /\ ~Took("abcm2ps.communicate")) => (stdin["abcm2ps"] /\ fed = None)
    /\ Took("abcm2ps.wait") => proc["abcm2ps"] = "exited"
    /\ (Took("ps2pdf") /\ ~Took("ps2pdf.communicate")) => stdin["ps2pdf"]
    /\ Took("ps2pdf.communicate") => ~stdin["ps2pdf"]
    /\ Took("ps2pdf.wait") => proc["ps2pdf"] = "exited"
    /\ (Took("pdf_viewer") /\ ~Took("pdf_viewer.stdin.close")) => stdin["pdf_viewer"]
    /\ (Took("pdf_viewer") /\ ~stdin["pdf_viewer"])
         => /\ DisplaySteps = DisplayOrder
            /\ proc["abcm2ps"] = "exited" /\ proc["ps2pdf"] = "exited"

\* The whole of display_abc ran, the notation reached abcm2ps and the viewer
\* is still running when its input is closed.
C12_Witness ==
    /\ DisplaySteps = DisplayOrder /\ outcome = "completed"
    /\ fed = Some(ScenarioB) /\ proc["pdf_viewer"] = "running"


EndsWithNewline(t) == t # <<>> /\ t[Len(t)] = NL

\* C13: after search extraction no tune's type ends with a newline, whatever
\* newlines the type's text node began or ended with.
C13_NoTrailingNewline ==
    /\ (AfterCall /\ call.fn = "get_search_tunes" /\ result[1].kind = "return")
         => \A i \in 1..Len(result[1].value) : ~EndsWithNewline(result[1].value[i].type)
    /\ \A i \in 1..Len(tunes) : ~EndsWithNewline(tunes[i].type)
    /\ (tune # None) => ~EndsWithNewline(tune[1].type)

\* A search page whose type nodes are a lone newline and a type followed by
\* two newlines.
C13_Witness ==
    /\ AfterCall /\ call.fn = "get_search_tunes" /\ result[1].kind = "return"
    /\ Len(result[1].value) = 2
    /\ call.page.types = << <<NL>>, <<NL, "j", NL, "g", NL, NL>> >>
    /\ result[1].value[1].type = <<>>
    /\ result[1].value[2].type = <<"j", NL, "g">>


\* The lines the picker reads from its input: none for the empty text.
MenuLines(text) == IF text = <<>> THEN <<>> ELSE split(text, NL)

\* C14: the menu handed to the picker has one line per candidate, in candidate
\* order, so that line index k denotes candidate k, whatever the fields hold
\* and also when setting fields are absent.
C14_OneLinePerCandidate ==
    /\ AfterSelectTune
         => /\ Len(MenuLines(menu)) = Len(tunes)
            /\ \A i \in 1..Len(tunes) : MenuLines(menu)[i] = format_tune(tunes[i])
    /\ AfterSelectSetting
         => /\ Len(MenuLines(menu)) = Len(settings)
            /\ \A i \in 1..Len(settings) : MenuLines(menu)[i] = format_setting(settings[i])


\* Step i of the run directly follows a step named in prev (or is the first
\* step when first holds).
Follows(i, prev, first) ==
    IF i = 1 THEN first ELSE trace[i - 1] \in prev

\* C15: a run is search fetches and tune picks, then one tune-page fetch, then
\* one setting pick, then one render. The tune page is fetched only after a
\* tune was selected, with that tune's id; the render starts only after a
\* setting was selected and is given that setting's notation; nothing is
\* searched once a tune is selected.
C15_RunOrder ==
    /\ \A i \in 1..Len(trace) :
         /\ trace[i] = "get_search_tunes" => Follows(i, {"select_tune"}, TRUE)
         /\ trace[i] = "select_tune" => Follows(i, {"get_search_tunes"}, FALSE)
         /\ trace[i] = "get_tune_settings" => Follows(i, {"select_tune"}, FALSE)
         /\ trace[i] = "select_setting" => Follows(i, {"get_tune_settings"}, FALSE)
         /\ trace[i] = "pdf_viewer" => Follows(i, {"select_setting"}, FALSE)
         /\ (IsDisplayStep(trace[i]) /\ trace[i] # "pdf_viewer")
              => (i > 1 /\ IsDisplayStep(trace[i - 1]))
         /\ trace[i] = "get_tune_settings"
              => \A j \in (i + 1)..Len(trace) :
                    trace[j] \notin {"get_search_tunes", "select_tune", "get_tune_settings"}
         /\ trace[i] = "select_setting"
              => \A j \in (i + 1)..Len(trace) : IsDisplayStep(trace[j])
    /\ count.tune <= 1
    /\ count.search \in {iter, iter + 1}
    /\ Took("get_tune_settings") => tune # None
    /\ tune # None => (pc # "get_search_tunes" /\ ~ENABLED FetchSearch)
    /\ Took("get_tune_settings") => (pc # "get_search_tunes" /\ pc # "select_tune")
    /\ last = "get_tune_settings"
         => /\ rofi.mode = "tune" /\ rofi.rc = 0 /\ 0 <= rofi.k /\ rofi.k < Len(tunes)
            /\ tune = Some(tunes[rofi.k + 1])
            /\ fetched.op = "tune" /\ fetched.arg = tunes[rofi.k + 1].id
    /\ Took("pdf_viewer") => setting # None
    /\ Took("pdf_viewer")
         => /\ rofi.mode = "setting" /\ rofi.rc = 0 /\ 0 <= rofi.k /\ rofi.k < Len(settings)
            /\ setting = Some(settings[rofi.k + 1])
            /\ fed \in {None, Some(settings[rofi.k + 1].abc)}
    /\ outcome = "completed"
         => /\ count.tune = 1 /\ count.picker = iter + 2 /\ count.popen = 3
            /\ DisplaySteps = DisplayOrder

\* One re-query, Drowsy Maggie, its second setting, rendered to the end.
C15_Witness ==
    /\ outcome = "completed" /\ iter = 1
    /\ trace = <<"get_search_tunes", "select_tune", "get_search_tunes", "select_tune",
                 "get_tune_settings", "select_setting">> \o DisplayOrder
    /\ tune[1].id = <<"2", "3">> /\ fetched.arg = <<"2", "3">>
    /\ fed = Some(<<"K", ":", "D", NL, "d", "2">>)


StatusOk == ~raise_for_status(fetched.status)

\* C16: an empty candidate list is a valid state. A search that extracts no
\* tune (a tune page that holds no setting) raises nothing and the picker
\* still runs, on an empty menu; after a typed reply (negative index) the tune
\* loop fetches again; the loop is left with a tune only if that tune was
\* picked from the list.
C16_EmptyListIsValid ==
    /\ (last = "get_search_tunes" /\ StatusOk)
         => (pc = "select_tune" /\ outcome = "running")
    /\ pc = "select_tune" => ENABLED SelectTune
    /\ pc = "select_setting" => ENABLED SelectSetting
    /\ (AfterCall /\ call.fn = "get_search_tunes" /\ call.status < 400
          /\ (call.page.names = <<>> \/ call.page.ids = <<>> \/ call.page.types = <<>>))
         => result = Some(Return(<<>>))
    /\ (AfterCall /\ call.fn = "get_tune_settings" /\ call.status < 400
          /\ call.elements = <<>>)
         => result = Some(Return(<<>>))
    /\ (AfterSelectTune /\ tunes = <<>>)
         => /\ menu = <<>> /\ rofi.n = 0
            /\ tune = None
            /\ (rofi.rc = 0 /\ rofi.k < 0)
                 => (pc = "get_search_tunes" /\ outcome = "running"
                       /\ signal # None /\ query = signal[1])
    /\ (AfterSelectSetting /\ settings = <<>>)
         => (menu = <<>> /\ rofi.n = 0 /\ setting = None /\ Ended)
    /\ tune # None
         => \E i \in 1..Len(tunes) : tune = Some(tunes[i])
    /\ (Took("select_tune") /\ pc \notin {"get_search_tunes", "select_tune", "done"})
         => tune # None

\* A search that found nothing, the picker shown an empty menu, a typed
\* reply, and the next search about to be fetched.
C16_Witness ==
    /\ AfterSelectTune /\ tunes = <<>> /\ menu = <<>>
    /\ rofi.rc = 0 /\ rofi.k = -1 /\ rofi.n = 0
    /\ pc = "get_search_tunes" /\ iter = 1 /\ tune = None


InDisplay ==
    pc \in {"popen_pdf_viewer", "popen_ps2pdf", "popen_abcm2ps", "abcm2ps_write",
            "abcm2ps_wait", "ps2pdf_close", "ps2pdf_wait", "pdf_viewer_close"}

AllExited == \A p \in Procs : proc[p] = "exited"

\* What holds in every state of display_abc when each process exits at the
\* end of its input: some step can always be taken; the three processes are
\* running when the notation is written, and it is written in full; ps2pdf
\* exits only after abcm2ps exited and the program closed its handle on
\* ps2pdf's stdin; the viewer exits only after ps2pdf exited and the program
\* closed the viewer's stdin.
PipelineSafe ==
    /\ InDisplay => ENABLED NextEof
    /\ pc = "abcm2ps_write" => \A p \in Procs : proc[p] = "running"
    /\ Took("abcm2ps.communicate") => fed = Some(setting[1].abc)
    /\ proc["abcm2ps"] = "exited" => ~stdin["abcm2ps"]
    /\ proc["ps2pdf"] = "exited" => (proc["abcm2ps"] = "exited" /\ ~stdin["ps2pdf"])
    /\ proc["pdf_viewer"] = "exited" => (proc["ps2pdf"] = "exited" /\ ~stdin["pdf_viewer"])

\* C17: when each stage reads its input to the end and then exits,
\* display_abc never deadlocks and always returns: ps2pdf sees the end of its
\* input only after abcm2ps exited and the program released ps2pdf's stdin,
\* the viewer only after ps2pdf exited and the program closed the viewer's
\* stdin, and all three processes are running while the notation is written.
C17_PipelineDrains ==
    /\ []PipelineSafe
    /\ (pc = "popen_pdf_viewer") ~> (outcome = "completed")
    /\ (pc = "popen_pdf_viewer") ~> AllExited

\* display_abc returned and the three processes are gone, the converters
\* having been fed the notation.
C17_Witness ==
    /\ outcome = "completed" /\ AllExited
    /\ fed = Some(ScenarioB)
    /\ DisplaySteps = DisplayOrder


\* C18: display_abc looks at no exit code. Whatever codes abcm2ps, ps2pdf and
\* the viewer exit with, each wait returns once its process has exited, the
\* viewer's stdin is closed last, display_abc returns and the program ends
\* with exit status 0.
C18_ExitCodesIgnored ==
    /\ InDisplay => (outcome = "running" /\ exc = "")
    /\ (pc = "abcm2ps_wait" /\ proc["abcm2ps"] = "exited") => ENABLED Abcm2psWait
    /\ (pc = "ps2pdf_wait" /\ proc["ps2pdf"] = "exited") => ENABLED Ps2pdfWait
    /\ pc = "pdf_viewer_close" => ENABLED ViewerClose
    /\ (Ended /\ Took("pdf_viewer"))
         => /\ outcome = "completed" /\ exitCode = 0 /\ exc = ""
            /\ DisplaySteps = DisplayOrder
            /\ ~stdin["pdf_viewer"]
            /\ proc["abcm2ps"] = "exited" /\ proc["ps2pdf"] = "exited"

\* A run that completed though both converters and the viewer failed.
C18_Witness ==
    /\ outcome = "completed" /\ exitCode = 0
    /\ \A p \in Procs : proc[p] = "exited" /\ returncode[p] = 1
    /\ last = "pdf_viewer.stdin.close"


ShortestResult(page) == Min(Len(page.names), Min(Len(page.ids), Len(page.types)))

UnequalLengths(page) ==
    ~(Len(page.names) = Len(page.ids) /\ Len(page.ids) = Len(page.types))

\* C19: when the name, id and type results of a popular or search page differ
\* in length, extraction raises nothing and gives as many tunes as the
\* shortest result holds, tune i built from entry i of each result (the type
\* without its leading and trailing newlines for a search page); the entries
\* beyond that are dropped.
C19_UnequalLengthsTruncate ==
    (/\ AfterCall
     /\ call.fn \in {"get_popular_tunes", "get_search_tunes"}
     /\ result # FetchError
     /\ UnequalLengths(call.page))
        => /\ result[1].kind = "return"
           /\ Len(result[1].value) = ShortestResult(call.page)
           /\ \A i \in 1..ShortestResult(call.page) :
                /\ result[1].value[i].name = call.page.names[i]
                /\ result[1].value[i].id = call.page.ids[i]
                /\ IF call.fn = "get_popular_tunes"
                   THEN result[1].value[i].type = call.page.types[i]
                   ELSE NewlineStripped(call.page.types[i], result[1].value[i].type)

\* Two names, one id, two types: one tune, the second name and type dropped.
C19_Witness ==
    /\ AfterCall /\ call.fn = "get_search_tunes" /\ call.status = 200
    /\ call.page.names = << <<"a">>, <<"b">> >>
    /\ call.page.ids = << <<"2">> >>
    /\ Len(call.page.types) = 2
    /\ result = Some(Return(<< Tune(<<"a">>, <<"2">>, <<"r">>) >>))

====
